---------------------------- MODULE Spec2Model ----------------------------
(***************************************************************************)
(* State-machine model of the Amazon best-sellers scraper:                 *)
(*   main.py          scrape()  - page loop, navigation retry, scroll      *)
(*                                convergence, per-item extraction, cap    *)
(*   data_handler.py  DataHandler - validate_record, add_record, to_csv    *)
(*   browser_manager.py  BrowserManager.scroll_to_bottom                   *)
(*   parser.py        Parser.extract (url is mandatory, name may be None)  *)
(*                                                                         *)
(* The page driver (Playwright) is the environment: whether a navigation   *)
(* succeeds, how many grid items are visible, what each item contains and  *)
(* which driver call raises are chosen nondeterministically.               *)
(***************************************************************************)
EXTENDS Integers, Sequences, FiniteSets, TLC

\* ------------------------------------------------------------------------
\* Program constants
\* ------------------------------------------------------------------------
\* main.py:87  "50 if pg == 1 else min(50, ...)"
PAGE_TARGET == 50
\* main.py:87 and main.py:126  "100 - len(...)", "if total >= 100"
GLOBAL_CAP == 100
\* main.py:89  "for scroll_attempt in range(6)"
SCROLL_ATTEMPTS == 6
\* config.py:16
max_retries == 3
\* browser_manager.py:76  "for _ in range(120)"
SCROLL_STEPS == 120
\* browser_manager.py:93  "if stable_steps >= 3"
STALL_THRESHOLD == 3
\* browser_manager.py:78  "page.mouse.wheel(0, 1000)"
WHEEL_DELTA == 1000
\* browser_manager.py:91  "y + ih + 5 >= h"
BOTTOM_SLACK == 5
\* config.py:21  viewport height, the driver's window.innerHeight
INNER_HEIGHT == 768

\* ------------------------------------------------------------------------
\* Bounds of the model
\* ------------------------------------------------------------------------
\* max_pages is drawn from 1..MaxPages (config.py:15 sets 3)
MaxPages == 3
\* a page that shows fewer items than any target
SmallPage == 2
\* how many items beyond PAGE_TARGET a page may show
Extra == 1
\* the driver's scroll position stops changing after N steps, N in 0..MaxN
MaxN == 119
\* the step at which a failing synthetic driver raises
FailStep == 2

\* Python's None for name / price / timestamp fields
None == "None"
\* no href found by any selector strategy
NoUrl == 0

VARIABLES
    pc,                 \* position in scrape()
    max_pages,          \* config.max_pages
    pg,                 \* page loop variable
    attempt,            \* navigation retry loop variable
    ok,                 \* main.py:72
    dom,                \* the DOM the driver currently shows: [scheme, pattern]
    target_page_count,  \* main.py:87
    scroll_attempt,     \* main.py:89
    items,              \* main.py:95  list of item handles
    idx,                \* position of the per-item loop in items[:target]
    seen_urls,          \* main.py:104
    record,             \* main.py:108  the record of the item last extracted
    rows,               \* DataHandler.rows
    written,            \* what to_csv wrote: "none", "primary", "fallback"
    idle_err,           \* whether the last wait_for_load_state raised (main.py:93)
    \* ---- BrowserManager.scroll_to_bottom, run on its own ----
    spc,                \* position in scroll_to_bottom
    step,               \* number of the loop iteration being run (1-based)
    last_y,             \* browser_manager.py:74
    stable_steps,       \* browser_manager.py:75
    y,                  \* the driver's window.scrollY
    why,                \* which exit ended scroll_to_bottom
    drv,                \* the synthetic driver: [N, h, fail]
    \* ---- Parser functions, run on their own ----
    p_pc,               \* "idle", "call" (before the call) or "ret" (after it)
    p_fn,               \* the Parser function called
    p_in,               \* its argument
    p_out,              \* what it returned or raised
    \* ---- the browser session around scrape()'s body, run on its own ----
    b_pc,               \* position in  async with BrowserManager(config) as bm
    faults,             \* the driver calls that raise in this run
    playwright,         \* BrowserManager._playwright and the driver's state
    browser,            \* BrowserManager.browser and the browser's state
    context,            \* BrowserManager.context and the context's state
    exc                 \* whether an exception is propagating out of scrape()

mainVars == <<pc, max_pages, pg, attempt, ok, dom, target_page_count,
              scroll_attempt, items, idx, seen_urls, record, rows, written, idle_err>>
scrollVars == <<spc, step, last_y, stable_steps, y, why, drv>>
parseVars == <<p_pc, p_fn, p_in, p_out>>
sessVars == <<b_pc, faults, playwright, browser, context, exc>>
vars == <<mainVars, scrollVars, parseVars, sessVars>>


\* ------------------------------------------------------------------------
\* The driver's pages (environment)
\* ------------------------------------------------------------------------
\* What a grid item holds: the href its anchor gives (NoUrl: no selector
\* strategy finds a non-empty href), its title text, its price text, and
\* whether a driver call on it raises.
Item(href, name, price, fault) ==
    [href |-> href, name |-> name, price |-> price, fault |-> fault]

ItemOfKind(kind, url) ==
    CASE kind = "ok"      -> Item(url, "n", "p", "none")
      [] kind = "noname"  -> Item(url, None, "p", "none")
      [] kind = "noprice" -> Item(url, "n", None, "none")
      [] kind = "nourl"   -> Item(NoUrl, "n", "p", "none")
      [] kind = "err"     -> Item(url, "n", "p", "error")
      [] kind = "closed"  -> Item(url, "n", "p", "closed")

\* The urls a page shows: all new ("fresh"), the same on every page
\* ("repeat"), or each one on two neighbouring items ("twins", whose two
\* copies differ in name or price).
UrlOf(scheme, p, i) ==
    CASE scheme = "fresh"  -> p * 1000 + i
      [] scheme = "repeat" -> 1000 + i
      [] scheme = "twins"  -> p * 1000 + ((i + 1) \div 2)

Layouts ==
    { [scheme |-> "fresh",  pattern |-> <<"ok">>],
      [scheme |-> "repeat", pattern |-> <<"ok">>],
      [scheme |-> "twins",  pattern |-> <<"noname", "ok", "noprice">>],
      [scheme |-> "fresh",  pattern |-> <<"ok", "nourl", "noname", "err", "noprice">>],
      [scheme |-> "fresh",  pattern |-> <<"ok", "ok", "closed">>] }

NoDom == [scheme |-> "none", pattern |-> <<>>]

KindAt(d, i) == d.pattern[((i - 1) % Len(d.pattern)) + 1]

\* The first n grid items of the page, in DOM order.
PageItems(d, p, n) ==
    [i \in 1..n |-> ItemOfKind(KindAt(d, i), UrlOf(d.scheme, p, i))]

\* How many #gridItemRoot elements the page may show at a query.
VisibleChoices == {0, SmallPage, PAGE_TARGET, PAGE_TARGET + Extra}

\* ------------------------------------------------------------------------
\* Parser.extract, as scrape() sees it
\* ------------------------------------------------------------------------
\* parser.py:68-161: a driver error propagates; ElementNotFound is raised
\* when no url is found; otherwise a record without timestamp is returned,
\* with "name or None".
Extract(item) ==
    IF item.fault = "closed" THEN [exc |-> "Closed"]
    ELSE IF item.fault = "error" THEN [exc |-> "Error"]
    ELSE IF item.href = NoUrl THEN [exc |-> "ElementNotFound"]
    ELSE [exc |-> "none",
          rec |-> [name |-> item.name, url |-> item.href,
                   price |-> item.price, timestamp |-> None]]

\* ------------------------------------------------------------------------
\* DataHandler
\* ------------------------------------------------------------------------
\* Python truthiness of a field value
Truthy(v) == v # None /\ v # ""

\* only the url required
validate_record_UrlOnly(r) == r.url # NoUrl

\* data_handler.py:19-21
validate_record(r) == Truthy(r.name) /\ r.url # NoUrl

\* the record appended without its timestamp
add_record_NoStamp(rs, r) == Append(rs, r)

\* the record put in front of the others
add_record_Prepend(rs, r) == <<[r EXCEPT !.timestamp = "ts"]>> \o rs

\* data_handler.py:23-25 (the timestamp is set, then the record appended)
add_record(rs, r) == Append(rs, [r EXCEPT !.timestamp = "ts"])

\* main.py:87 / main.py:125  len([r for r in handler.rows if r.get("name")])
NamedCount(rs) == Cardinality({i \in 1..Len(rs) : Truthy(rs[i].name)})

\* the set started empty on every page
SeenUrls_Fresh(rs) == {}

\* main.py:104  {r.get("url") for r in handler.rows if r.get("url")}
SeenUrls(rs) == {rs[i].url : i \in {j \in 1..Len(rs) : rs[j].url # NoUrl}}

\* every page given the first page's target
TargetPageCount_Fixed(p, rs) == PAGE_TARGET

\* main.py:87
TargetPageCount(p, rs) ==
    IF p = 1 THEN PAGE_TARGET
    ELSE IF PAGE_TARGET <= GLOBAL_CAP - NamedCount(rs) THEN PAGE_TARGET
    ELSE GLOBAL_CAP - NamedCount(rs)

\* the slice left out: every visible item visited
SliceLen_All(n, t) == n

\* main.py:105  len(items[:target_page_count]) with Python's slice rules
SliceLen(n, t) ==
    IF t >= 0 THEN (IF t <= n THEN t ELSE n)
    ELSE (IF n + t >= 0 THEN n + t ELSE 0)

NoRecord == [name |-> None, url |-> NoUrl, price |-> None, timestamp |-> None]


\* ------------------------------------------------------------------------
\* scrape()  (main.py:41-129)
\* ------------------------------------------------------------------------
ParseIdle ==
    p_pc = "idle" /\ p_fn = "" /\ p_in = <<>> /\ p_out = <<>>

\* browser_manager.py:15-19  nothing acquired
SessIdle ==
    /\ b_pc = "idle" /\ faults = {} /\ playwright = None /\ browser = None
    /\ context = None /\ exc = FALSE

ScrollIdle ==
    /\ spc = "idle" /\ step = 0 /\ last_y = -1 /\ stable_steps = 0
    /\ y = 0 /\ why = "" /\ drv = [N |-> 0, h |-> 0, fail |-> "none"]

Init ==
    /\ pc = "for_pg"
    /\ max_pages \in 0..MaxPages
    /\ pg = 1
    /\ attempt = 0
    /\ ok = FALSE
    /\ dom = NoDom
    /\ target_page_count = 0
    /\ scroll_attempt = 0
    /\ items = <<>>
    /\ idx = 0
    /\ seen_urls = {}
    /\ record = NoRecord
    /\ rows = <<>>
    /\ written = "none"
    /\ idle_err = FALSE
    /\ ScrollIdle
    /\ ParseIdle
    /\ SessIdle

\* main.py:56  for pg in range(1, config.max_pages + 1); main.py:72-73
ForPage ==
    /\ pc = "for_pg"
    /\ IF pg <= max_pages
       THEN /\ pc' = "goto"
            /\ ok' = FALSE
            /\ attempt' = 1
       ELSE /\ pc' = "export"
            /\ UNCHANGED <<ok, attempt>>
    /\ UNCHANGED <<max_pages, pg, dom, target_page_count, scroll_attempt, items,
                   idx, seen_urls, record, rows, written, idle_err, scrollVars, parseVars, sessVars>>

\* main.py:74-77  page.goto succeeds: ok = True; break
GotoOk ==
    /\ pc = "goto"
    /\ \E d \in Layouts : dom' = d
    /\ ok' = TRUE
    /\ pc' = "nav_done"
    /\ UNCHANGED <<max_pages, pg, attempt, target_page_count, scroll_attempt,
                   items, idx, seen_urls, record, rows, written, idle_err,
                   scrollVars, parseVars, sessVars>>

\* a failed navigation ends the run once the attempts are used up
GotoError_Fatal ==
    /\ pc = "goto"
    /\ IF attempt < max_retries
       THEN /\ attempt' = attempt + 1
            /\ pc' = "goto"
       ELSE /\ attempt' = attempt
            /\ pc' = "crashed"
    /\ UNCHANGED <<max_pages, pg, ok, dom, target_page_count, scroll_attempt,
                   items, idx, seen_urls, record, rows, written, idle_err,
                   scrollVars, parseVars, sessVars>>

\* main.py:78-81  page.goto raises Error: delay and retry while attempts remain
GotoError ==
    /\ pc = "goto"
    /\ IF attempt < max_retries
       THEN /\ attempt' = attempt + 1
            /\ pc' = "goto"
       ELSE /\ attempt' = attempt
            /\ pc' = "nav_done"
    /\ UNCHANGED <<max_pages, pg, ok, dom, target_page_count, scroll_attempt,
                   items, idx, seen_urls, record, rows, written, idle_err,
                   scrollVars, parseVars, sessVars>>

\* main.py:83-88  if not ok: continue; else the target count and items = []
\* (attempt is not read again before ForPage resets it; it is cleared here)
AfterNav ==
    /\ pc = "nav_done"
    /\ attempt' = 0
    /\ IF ~ok
       THEN /\ pg' = pg + 1
            /\ pc' = "for_pg"
            /\ UNCHANGED <<target_page_count, items, scroll_attempt>>
       ELSE /\ target_page_count' = TargetPageCount(pg, rows)
            /\ items' = <<>>
            /\ scroll_attempt' = 0
            /\ pc' = "scroll"
            /\ pg' = pg
    /\ UNCHANGED <<max_pages, ok, dom, idx, seen_urls, record, rows, written,
                   idle_err, scrollVars, parseVars, sessVars>>

\* main.py:90  await bm.scroll_to_bottom(page): it catches every driver
\* error (browser_manager.py:79, 96) and returns nothing.
ScrollDown ==
    /\ pc = "scroll"
    /\ pc' = "idle"
    /\ UNCHANGED <<max_pages, pg, attempt, ok, dom, target_page_count,
                   scroll_attempt, items, idx, seen_urls, record, rows, written,
                   idle_err, scrollVars, parseVars, sessVars>>

\* main.py:91-94  wait_for_load_state; an Error is swallowed
WaitIdle ==
    /\ pc = "idle"
    /\ \E raised \in BOOLEAN : idle_err' = raised
    /\ pc' = "query"
    /\ UNCHANGED <<max_pages, pg, attempt, ok, dom, target_page_count,
                   scroll_attempt, items, idx, seen_urls, record, rows, written,
                   scrollVars, parseVars, sessVars>>

\* the iterations not counted
NextScrollAttempt_NoCount(sa) == [pc |-> "scroll", sa |-> sa]

\* one iteration too many
NextScrollAttempt_OffByOne(sa) ==
    IF sa + 1 <= SCROLL_ATTEMPTS THEN [pc |-> "scroll", sa |-> sa + 1]
    ELSE [pc |-> "check_items", sa |-> sa]

\* main.py:89, 99: the end of one iteration of  for scroll_attempt in range(6)
NextScrollAttempt(sa) ==
    IF sa + 1 < SCROLL_ATTEMPTS THEN [pc |-> "scroll", sa |-> sa + 1]
    ELSE [pc |-> "check_items", sa |-> sa]

\* main.py:95-97  items = await page.locator("#gridItemRoot").all();
\* break when len(items) >= target_page_count
QueryItems ==
    /\ pc = "query"
    /\ \E n \in VisibleChoices : items' = PageItems(dom, pg, n)
    /\ pc' = IF Len(items') >= target_page_count THEN "check_items" ELSE "nudge"
    /\ UNCHANGED <<max_pages, pg, attempt, ok, dom, target_page_count,
                   scroll_attempt, idx, seen_urls, record, rows, written,
                   idle_err, scrollVars, parseVars, sessVars>>

\* main.py:95  the query raises a driver Error: nothing catches it
QueryError ==
    /\ pc = "query"
    /\ pc' = "crashed"
    /\ UNCHANGED <<max_pages, pg, attempt, ok, dom, target_page_count,
                   scroll_attempt, items, idx, seen_urls, record, rows, written,
                   idle_err, scrollVars, parseVars, sessVars>>

\* main.py:98-99  window.scrollBy(0, -500); sleep; next iteration
Nudge ==
    /\ pc = "nudge"
    /\ pc' = NextScrollAttempt(scroll_attempt).pc
    /\ scroll_attempt' = NextScrollAttempt(scroll_attempt).sa
    /\ UNCHANGED <<max_pages, pg, attempt, ok, dom, target_page_count, items,
                   idx, seen_urls, record, rows, written, idle_err, scrollVars, parseVars, sessVars>>

\* main.py:98  page.evaluate raises a driver Error: nothing catches it
NudgeError ==
    /\ pc = "nudge"
    /\ pc' = "crashed"
    /\ UNCHANGED <<max_pages, pg, attempt, ok, dom, target_page_count,
                   scroll_attempt, items, idx, seen_urls, record, rows, written,
                   idle_err, scrollVars, parseVars, sessVars>>


\* main.py:105  the number of items the per-item loop visits
Limit == SliceLen(Len(items), target_page_count)

\* an empty page treated like any other page: on to the cap check
CheckItems_NoStop ==
    /\ pc = "check_items"
    /\ scroll_attempt' = 0
    /\ idle_err' = FALSE
    /\ seen_urls' = SeenUrls(rows)
    /\ IF SliceLen(Len(items), target_page_count) = 0
       THEN pc' = "cap" /\ idx' = 0
       ELSE pc' = "item" /\ idx' = 1
    /\ UNCHANGED <<max_pages, pg, attempt, ok, dom, target_page_count, items,
                   record, rows, written, scrollVars, parseVars, sessVars>>

\* main.py:101-105  if not items: break; seen_urls is rebuilt from the rows
\* (scroll_attempt and the wait's outcome are not read again; cleared here)
CheckItems ==
    /\ pc = "check_items"
    /\ scroll_attempt' = 0
    /\ idle_err' = FALSE
    /\ IF items = <<>>
       THEN /\ pc' = "export"
            /\ UNCHANGED <<seen_urls, idx>>
       ELSE /\ seen_urls' = SeenUrls(rows)
            /\ IF Limit = 0
               THEN pc' = "cap" /\ idx' = 0
               ELSE pc' = "item" /\ idx' = 1
    /\ UNCHANGED <<max_pages, pg, attempt, ok, dom, target_page_count, items,
                   record, rows, written, scrollVars, parseVars, sessVars>>

\* the per-item loop moves to its next item, or ends
Advance ==
    IF idx < Limit THEN pc' = "item" /\ idx' = idx + 1
    ELSE pc' = "cap" /\ idx' = idx

\* ElementNotFound ends the page's item loop
ItemNotFound_Break ==
    /\ pc = "item"
    /\ Extract(items[idx]).exc = "ElementNotFound"
    /\ pc' = "cap"
    /\ UNCHANGED <<max_pages, pg, attempt, ok, dom, target_page_count,
                   scroll_attempt, items, idx, seen_urls, record, rows, written,
                   idle_err, scrollVars, parseVars, sessVars>>

\* main.py:106-110  extract raises ElementNotFound: continue
ItemNotFound ==
    /\ pc = "item"
    /\ Extract(items[idx]).exc = "ElementNotFound"
    /\ Advance
    /\ UNCHANGED <<max_pages, pg, attempt, ok, dom, target_page_count,
                   scroll_attempt, items, seen_urls, record, rows, written,
                   idle_err, scrollVars, parseVars, sessVars>>

\* main.py:111-116  extract raises a driver Error that is not "closed": continue
ItemError ==
    /\ pc = "item"
    /\ Extract(items[idx]).exc = "Error"
    /\ Advance
    /\ UNCHANGED <<max_pages, pg, attempt, ok, dom, target_page_count,
                   scroll_attempt, items, seen_urls, record, rows, written,
                   idle_err, scrollVars, parseVars, sessVars>>

\* the closed-context error left to propagate out of scrape()
ItemClosed_Fatal ==
    /\ pc = "item"
    /\ Extract(items[idx]).exc = "Closed"
    /\ pc' = "crashed"
    /\ UNCHANGED <<max_pages, pg, attempt, ok, dom, target_page_count,
                   scroll_attempt, items, idx, seen_urls, record, rows, written,
                   idle_err, scrollVars, parseVars, sessVars>>

\* main.py:111-114  "Target page, context or browser has been closed": break
ItemClosed ==
    /\ pc = "item"
    /\ Extract(items[idx]).exc = "Closed"
    /\ pc' = "cap"
    /\ UNCHANGED <<max_pages, pg, attempt, ok, dom, target_page_count,
                   scroll_attempt, items, idx, seen_urls, record, rows, written,
                   idle_err, scrollVars, parseVars, sessVars>>

\* the duplicate check left out
Accepts_NoDedup(r, seen) == validate_record(r)

\* main.py:118-119  the record passes validation and its url is new
Accepts(r, seen) == validate_record(r) /\ r.url \notin seen

\* main.py:118-121  validate, then the duplicate check, then add_record
\* (which stamps the record in place) and seen_urls.add
Accept(r) ==
    IF Accepts(r, seen_urls)
    THEN /\ rows' = add_record(rows, r)
         /\ seen_urls' = seen_urls \cup {r.url}
         /\ record' = [r EXCEPT !.timestamp = "ts"]
    ELSE /\ rows' = rows
         /\ seen_urls' = seen_urls
         /\ record' = r

\* main.py:122  if record.get("price") is None and record.get("name")
NeedsDump(r) == r.price = None /\ Truthy(r.name)

\* main.py:108, 118-123  extract returns a record; dump_html, when called,
\* returns
ItemRecord ==
    /\ pc = "item"
    /\ Extract(items[idx]).exc = "none"
    /\ Accept(Extract(items[idx]).rec)
    /\ Advance
    /\ UNCHANGED <<max_pages, pg, attempt, ok, dom, target_page_count,
                   scroll_attempt, items, written, idle_err, scrollVars, parseVars, sessVars>>

\* main.py:122-123, 32-38  dump_html raises (item.evaluate or the file
\* write): nothing catches it
ItemDumpError ==
    /\ pc = "item"
    /\ Extract(items[idx]).exc = "none"
    /\ NeedsDump(Extract(items[idx]).rec)
    /\ Accept(Extract(items[idx]).rec)
    /\ pc' = "crashed"
    /\ UNCHANGED <<max_pages, pg, attempt, ok, dom, target_page_count,
                   scroll_attempt, items, idx, written, idle_err, scrollVars, parseVars, sessVars>>

\* the cap compared with > instead of >=
CapCheck_Strict ==
    /\ pc = "cap"
    /\ IF NamedCount(rows) > GLOBAL_CAP
       THEN pc' = "export" /\ pg' = pg
       ELSE pc' = "for_pg" /\ pg' = pg + 1
    /\ UNCHANGED <<max_pages, attempt, ok, dom, target_page_count,
                   scroll_attempt, items, idx, seen_urls, record, rows, written,
                   idle_err, scrollVars, parseVars, sessVars>>

\* main.py:125-127  total >= 100: break; else the next page
CapCheck ==
    /\ pc = "cap"
    /\ IF NamedCount(rows) >= GLOBAL_CAP
       THEN pc' = "export" /\ pg' = pg
       ELSE pc' = "for_pg" /\ pg' = pg + 1
    /\ UNCHANGED <<max_pages, attempt, ok, dom, target_page_count,
                   scroll_attempt, items, idx, seen_urls, record, rows, written,
                   idle_err, scrollVars, parseVars, sessVars>>

\* main.py:129, data_handler.py:30-47  the write to file_path succeeds
ExportPrimary ==
    /\ pc = "export"
    /\ written' = "primary"
    /\ pc' = "done"
    /\ UNCHANGED <<max_pages, pg, attempt, ok, dom, target_page_count,
                   scroll_attempt, items, idx, seen_urls, record, rows,
                   idle_err, scrollVars, parseVars, sessVars>>

\* data_handler.py:48-68  PermissionError, and the fallback write succeeds
ExportFallback ==
    /\ pc = "export"
    /\ written' = "fallback"
    /\ pc' = "done"
    /\ UNCHANGED <<max_pages, pg, attempt, ok, dom, target_page_count,
                   scroll_attempt, items, idx, seen_urls, record, rows,
                   idle_err, scrollVars, parseVars, sessVars>>

\* data_handler.py:52  the fallback open raises too: nothing catches it
ExportDenied ==
    /\ pc = "export"
    /\ pc' = "crashed"
    /\ UNCHANGED <<max_pages, pg, attempt, ok, dom, target_page_count,
                   scroll_attempt, items, idx, seen_urls, record, rows, written,
                   idle_err, scrollVars, parseVars, sessVars>>

Next ==
    \/ ForPage
    \/ GotoOk
    \/ GotoError
    \/ AfterNav
    \/ ScrollDown
    \/ WaitIdle
    \/ QueryItems
    \/ QueryError
    \/ Nudge
    \/ NudgeError
    \/ CheckItems
    \/ ItemNotFound
    \/ ItemError
    \/ ItemClosed
    \/ ItemRecord
    \/ ItemDumpError
    \/ CapCheck
    \/ ExportPrimary
    \/ ExportFallback
    \/ ExportDenied

Spec == Init /\ [][Next]_vars


\* ------------------------------------------------------------------------
\* BrowserManager.scroll_to_bottom  (browser_manager.py:70-98), run against
\* a synthetic driver: its scroll position moves by the wheel delta on each
\* of the first drv.N wheel calls and stays where it is afterwards; its
\* document is drv.h high; drv.fail names the call that raises at FailStep.
\* ------------------------------------------------------------------------
\* a document so high that y + ih + 5 >= h never holds within the loop
FarHeight == SCROLL_STEPS * WHEEL_DELTA + INNER_HEIGHT + BOTTOM_SLACK + 1

DocHeights == {INNER_HEIGHT, 3 * WHEEL_DELTA, FarHeight}

MainIdle ==
    /\ pc = "idle" /\ max_pages = 0 /\ pg = 1 /\ attempt = 0 /\ ok = FALSE
    /\ dom = NoDom /\ target_page_count = 0 /\ scroll_attempt = 0
    /\ items = <<>> /\ idx = 0 /\ seen_urls = {} /\ record = NoRecord
    /\ rows = <<>> /\ written = "none" /\ idle_err = FALSE

\* browser_manager.py:74-75
InitScroll ==
    /\ MainIdle
    /\ ParseIdle
    /\ SessIdle
    /\ spc = "wheel"
    /\ step = 1
    /\ last_y = -1
    /\ stable_steps = 0
    /\ y = 0
    /\ why = ""
    /\ drv \in [N : 0..MaxN, h : DocHeights, fail : {"none", "wheel", "evaluate"}]

\* browser_manager.py:77-81  page.mouse.wheel(0, 1000); sleep(1)
Wheel ==
    /\ spc = "wheel"
    /\ ~(drv.fail = "wheel" /\ step = FailStep)
    /\ y' = IF step <= drv.N THEN y + WHEEL_DELTA ELSE y
    /\ spc' = "read"
    /\ UNCHANGED <<step, last_y, stable_steps, why, drv, mainVars, parseVars, sessVars>>

\* browser_manager.py:79-80  the wheel call raises: break
WheelError ==
    /\ spc = "wheel"
    /\ drv.fail = "wheel" /\ step = FailStep
    /\ spc' = "done"
    /\ why' = "error"
    /\ UNCHANGED <<step, last_y, stable_steps, y, drv, mainVars, parseVars, sessVars>>

\* browser_manager.py:86-90
StableSteps(yv, last, st) == IF yv = last THEN st + 1 ELSE 0

\* browser_manager.py:91
AtBottom(yv, ih, h) == yv + ih + BOTTOM_SLACK >= h

\* the stall exit taken one step early
Stalled_Early(st) == st >= STALL_THRESHOLD - 1

\* browser_manager.py:93
Stalled(st) == st >= STALL_THRESHOLD

\* browser_manager.py:76  the loop's next iteration, or its end after
\* SCROLL_STEPS iterations
Continue ==
    IF step < SCROLL_STEPS
    THEN step' = step + 1 /\ spc' = "wheel" /\ why' = why
    ELSE step' = step /\ spc' = "done" /\ why' = "exhausted"

\* browser_manager.py:82-95  read y, h, ih; count stable steps; break at the
\* bottom or on a stall
Read ==
    /\ spc = "read"
    /\ ~(drv.fail = "evaluate" /\ step = FailStep)
    /\ stable_steps' = StableSteps(y, last_y, stable_steps)
    /\ last_y' = IF y = last_y THEN last_y ELSE y
    /\ IF AtBottom(y, INNER_HEIGHT, drv.h)
       THEN step' = step /\ spc' = "done" /\ why' = "bottom"
       ELSE IF Stalled(stable_steps')
            THEN step' = step /\ spc' = "done" /\ why' = "stall"
            ELSE Continue
    /\ UNCHANGED <<y, drv, mainVars, parseVars, sessVars>>

\* browser_manager.py:96-98  a page.evaluate raises: break
ReadError ==
    /\ spc = "read"
    /\ drv.fail = "evaluate" /\ step = FailStep
    /\ spc' = "done"
    /\ why' = "error"
    /\ UNCHANGED <<step, last_y, stable_steps, y, drv, mainVars, parseVars, sessVars>>

NextScroll ==
    \/ Wheel
    \/ WheelError
    \/ Read
    \/ ReadError

SpecScroll == InitScroll /\ [][NextScroll]_vars


\* ------------------------------------------------------------------------
\* Properties
\* ------------------------------------------------------------------------
Min(a, b) == IF a <= b THEN a ELSE b
Max(a, b) == IF a >= b THEN a ELSE b

\* scrape() has left the page loop for good
Final == {"export", "done", "crashed"}
\* the positions of the scroll-convergence loop
ScrollPhase == {"scroll", "idle", "query", "nudge"}

\* C1: in every reachable state no two records of the dataset share a url.
C1_Dedup ==
    Cardinality({rows[i].url : i \in 1..Len(rows)}) = Len(rows)

\* a valid record whose url an earlier page already delivered was extracted
\* on page 2 and not appended: the dataset still holds one copy
C1_Witness ==
    /\ pg = 2 /\ pc = "item" /\ dom.scheme = "repeat"
    /\ validate_record(record) /\ record.timestamp = None
    /\ record.url \in seen_urls
    /\ Cardinality({i \in 1..Len(rows) : rows[i].url = record.url}) = 1

\* C2: every record in the dataset has a non-empty name and a non-empty url,
\* and an extracted record without a name is never appended (it never gets
\* the timestamp add_record sets, and its url is not taken as seen).
C2_Validated ==
    /\ \A i \in 1..Len(rows) :
         /\ rows[i].name # None /\ rows[i].name # ""
         /\ rows[i].url # NoUrl
    /\ record.name = None => record.timestamp = None

\* an item with a url but no name was extracted, and the dataset does not
\* hold its url
C2_Witness ==
    /\ pc = "item" /\ record.name = None /\ record.url # NoUrl
    /\ \A i \in 1..Len(rows) : rows[i].url # record.url
    /\ Len(rows) > 0

\* C3: the number of dataset records with a non-empty name never exceeds 100.
C3_Budget ==
    Cardinality({i \in 1..Len(rows) : rows[i].name # None /\ rows[i].name # ""})
        <= 100

\* the cap is met exactly on a third page whose target was cut below 50
C3_Witness ==
    /\ pg = 3 /\ pc = "cap" /\ Len(rows) = 100
    /\ target_page_count < 50 /\ Len(items) > target_page_count

\* the conditions C4 is stated under: the true bottom is never seen and no
\* driver call fails
StallOnly == drv.h = FarHeight /\ drv.fail = "none"

\* C4 (as claimed): for every N >= 0, a driver whose position stops changing
\* after N steps makes scroll_to_bottom end at exactly step N + 3.
C4_Original ==
    (spc = "done" /\ StallOnly) => step = drv.N + 3

\* C4 (amended): scroll_to_bottom ends at exactly step N + 3 by the stall
\* exit when 1 <= N <= 117; for N = 0 it ends at step 4 (the first read
\* only sets the baseline); for N >= 118 it ends after step 120, by the
\* iteration bound.
C4_Amended ==
    (spc = "done" /\ StallOnly) =>
        /\ (drv.N >= 1 /\ drv.N <= 117) => (step = drv.N + 3 /\ why = "stall")
        /\ drv.N = 0 => (step = 4 /\ why = "stall")
        /\ drv.N >= 118 => (step = 120 /\ why = "exhausted")

\* a position that stops after 5 steps ends the loop at step 8
C4_Witness ==
    /\ spc = "done" /\ StallOnly /\ drv.N = 5 /\ step = 8 /\ why = "stall"


\* one step of the navigation retry loop: a success ends it, a failure
\* retries while attempts remain and ends it otherwise
NavStep ==
    pc = "goto" =>
        \/ ok' /\ pc' = "nav_done" /\ attempt' = attempt
        \/ ~ok' /\ attempt < max_retries /\ pc' = "goto" /\ attempt' = attempt + 1
        \/ ~ok' /\ attempt = max_retries /\ pc' = "nav_done" /\ attempt' = attempt

\* a page whose navigation failed is left without touching items or dataset
SkipStep ==
    (pc = "nav_done" /\ ~ok) =>
        (pc' = "for_pg" /\ pg' = pg + 1 /\ rows' = rows /\ items' = items
         /\ seen_urls' = seen_urls)

\* the page loop enters its next page while pages remain
EnterStep == (pc = "for_pg" /\ pg <= max_pages) => pc' = "goto"

\* C5: a page's navigation is attempted at most max_retries times and stops
\* at the first success; when every attempt fails the page is skipped - no
\* scrolling, no extraction, no dataset change - and the run goes on with
\* the next page instead of ending.
C5_NavRetry ==
    /\ [](pc = "goto" => (attempt >= 1 /\ attempt <= max_retries /\ ~ok))
    /\ [](pc = "nav_done" => (ok \/ attempt = max_retries))
    /\ [][NavStep]_vars
    /\ [][SkipStep]_vars
    /\ [][EnterStep]_vars

\* page 1 was skipped after its retries (nothing was ever loaded) and the
\* run is navigating to page 2
C5_Witness ==
    /\ pc = "goto" /\ pg = 2 /\ dom = NoDom /\ rows = <<>> /\ attempt = 1

\* the items are counted after the idle wait, whatever its outcome
CountStep == pc = "idle" => pc' = "query"

\* the loop ends exactly when the count reaches the target
ConvergeStep ==
    (pc = "query" /\ pc' # "crashed") =>
        (IF Len(items') >= target_page_count THEN pc' = "check_items"
         ELSE pc' = "nudge")

\* after the nudge the next iteration starts, unless it was the sixth
NudgeStep ==
    (pc = "nudge" /\ pc' # "crashed") =>
        (IF scroll_attempt < 5
         THEN pc' = "scroll" /\ scroll_attempt' = scroll_attempt + 1
         ELSE pc' = "check_items")

\* C6: the convergence loop of a navigated page runs at most 6 iterations;
\* every iteration counts the visible items, also when the network-idle
\* wait failed; the loop ends at the first iteration whose count reaches the
\* page's target; the upward nudge happens only after an iteration that did
\* not converge.
C6_Convergence ==
    /\ [](pc \in ScrollPhase => (scroll_attempt >= 0 /\ scroll_attempt < 6))
    /\ [](pc = "nudge" => Len(items) < target_page_count)
    /\ [][CountStep]_vars
    /\ [][ConvergeStep]_vars
    /\ [][NudgeStep]_vars

\* the fourth iteration's idle wait failed, its items were counted all the
\* same and ended the loop
C6_Witness ==
    /\ pc = "check_items" /\ idle_err /\ scroll_attempt = 3
    /\ Len(items) >= target_page_count

\* a loaded page without items ends the page loop
ZeroStep == (pc = "check_items" /\ items = <<>>) => pc' = "export"

\* after the page loop: no page, no record
StoppedStep == pc \in Final => (pc' \in Final /\ rows' = rows /\ pg' = pg)

\* a page skipped for failed navigation hands over to the next page
SkipGoesOnStep ==
    (pc = "nav_done" /\ ~ok /\ pg < max_pages) =>
        (pc' = "for_pg" /\ pg' = pg + 1 /\ pg' <= max_pages)

\* C7: when the convergence loop of a navigated page ends with no item, no
\* later page is navigated and no record is added any more; a page skipped
\* after failed navigation does not stop the later pages.
C7_ZeroItemStop ==
    /\ [][ZeroStep]_vars
    /\ [][StoppedStep]_vars
    /\ [][SkipGoesOnStep]_vars

\* the run is at the export after a loaded page showed no item, with pages
\* left
C7_Witness ==
    /\ pc = "export" /\ ok /\ items = <<>> /\ pg < max_pages /\ Len(rows) > 0

\* the target while the page's items are being revealed (the dataset is as
\* it was when the page started)
TargetAtPageStart ==
    pc \in ScrollPhase \cup {"check_items"} =>
        target_page_count =
            IF pg = 1 THEN 50
            ELSE Min(50, 100 - Cardinality({i \in 1..Len(rows) :
                                              rows[i].name # None}))

\* the per-item loop stays within the first target-many visible items
WithinTarget ==
    pc = "item" => (idx >= 1 /\ idx <= target_page_count /\ idx <= Len(items))

\* the loop starts at the first item, takes the items one by one in DOM
\* order, and a record it extracts is the one of the item it is at
InOrderStep ==
    /\ (pc = "check_items" /\ pc' = "item") => idx' = 1
    /\ (pc = "item" /\ pc' = "item") => idx' = idx + 1
    /\ (pc = "item" /\ record' # record) =>
          /\ record'.url = items[idx].href
          /\ record'.name = items[idx].name
          /\ record'.price = items[idx].price

\* C8: page 1 has target 50, every later page min(50, 100 - named records
\* at the page's start); at most target-many items, the first in DOM order,
\* are passed to extraction whatever number is visible.
C8_Target ==
    /\ []TargetAtPageStart
    /\ []WithinTarget
    /\ [][InOrderStep]_vars

\* on page 3 the target is 48, 51 items are visible and the loop has
\* reached the last item it visits, the 48th
C8_Witness ==
    /\ pg = 3 /\ pc = "item" /\ target_page_count = 48 /\ Len(items) = 51
    /\ idx = 48

\* the cap check ends the page loop at 100 named records
CapStep == (pc = "cap" /\ NamedCount(rows) >= 100) => pc' = "export"

\* after the page loop nothing is navigated, scrolled or extracted
NoMorePagesStep ==
    pc \in Final => (pc' \in Final /\ items' = items /\ dom' = dom /\ idx' = idx)

\* C9: once the dataset holds at least 100 named records after a page, no
\* further page is navigated, scrolled or extracted, even with pages left.
C9_CapStop ==
    /\ [][CapStep]_vars
    /\ [][NoMorePagesStep]_vars

\* the cap was reached on page 2 of 3 and the run is at the export
C9_Witness ==
    /\ pc = "export" /\ pg = 2 /\ max_pages = 3 /\ NamedCount(rows) >= 100

\* the item the per-item loop is at raises ElementNotFound or a driver error
\* other than "closed"
ItemFails ==
    /\ pc = "item"
    /\ \/ items[idx].fault = "error"
       \/ items[idx].fault = "none" /\ items[idx].href = NoUrl

\* a failing item changes nothing and the loop goes on to the next item
FailLocalStep ==
    ItemFails =>
        /\ rows' = rows /\ seen_urls' = seen_urls /\ items' = items
        /\ IF idx < Min(Len(items), target_page_count)
           THEN pc' = "item" /\ idx' = idx + 1
           ELSE pc' = "cap"

\* page 1 is done and showed a complete item A, then an item B without url
PageOfAandB ==
    /\ pc = "cap" /\ pg = 1 /\ Len(items) = 2
    /\ items[1].href # NoUrl /\ items[1].name # None /\ items[1].fault = "none"
    /\ items[2].href = NoUrl /\ items[2].fault = "none"

\* C10: an item whose extraction raises ElementNotFound or a driver error
\* that is not a context-closed error adds no record, leaves the dataset and
\* the seen-url set unchanged, and the later items of the page (up to the
\* target) are still processed; a page of a complete item A and an item B
\* without url yields exactly one record.
C10_ItemFailureLocal ==
    /\ [][FailLocalStep]_vars
    /\ [](PageOfAandB => Len(rows) = 1)

\* page 1 showed a complete item and an item without url: one record, A's
C10_Witness ==
    /\ PageOfAandB /\ Len(rows) = 1 /\ rows[1].url = items[1].href

\* the item the per-item loop is at raises the closed-context error
ItemIsClosed == pc = "item" /\ items[idx].fault = "closed"

\* the closed-context error ends the page's item loop where it is, with the
\* dataset as it was
ClosedStep ==
    ItemIsClosed => (pc' = "cap" /\ idx' = idx /\ rows' = rows /\ pg' = pg)

\* the cap check follows, and below the cap the next page
AfterClosedStep ==
    pc = "cap" =>
        /\ rows' = rows
        /\ IF NamedCount(rows) >= 100 THEN pc' = "export"
           ELSE pc' = "for_pg" /\ pg' = pg + 1

\* C11: when extraction of an item fails because the page, context or
\* browser was closed, no later item of the page is extracted, the records
\* already accepted stay in the dataset, and the run goes on to the cap
\* check and the next page rather than ending.
C11_ClosedBreak ==
    /\ [][ClosedStep]_vars
    /\ [][AfterClosedStep]_vars
    /\ [][EnterStep]_vars

\* page 1 was closed at its third item of fifty; its two records are kept
\* and page 2 is being navigated
C11_Witness ==
    /\ pc = "goto" /\ pg = 2 /\ Len(items) = 50 /\ idx = 3
    /\ items[3].fault = "closed" /\ Len(rows) = 2

\* a step of the scroll/convergence phase does not end the run
NoPageAbortStep == pc \in ScrollPhase => pc' # "crashed"

\* C12: a driver error raised at any step of a page's scroll/convergence
\* phase - the bottom-detection scroll, the item-handle query, the upward
\* nudge - never ends the run with an error: the loop stops early and the
\* run still reaches the later pages or the export.
C12_NoPageAbort == [][NoPageAbortStep]_vars

\* handling one item leads to the next item or to the end of the item loop
NoItemAbortStep == pc = "item" => pc' \in {"item", "cap"}

\* C13: no failure raised while handling one item - the delay, the
\* extraction, the validation and append, the debug dump of a named record
\* without price - keeps the later items of the page from being processed
\* or ends the run before the export.
C13_NoItemAbort == [][NoItemAbortStep]_vars

\* to_csv returns normally with a file written
WriteRecoveredStep ==
    pc = "export" => (pc' = "done" /\ written' \in {"primary", "fallback"})

\* C16: a permission-denied write of the export is always recovered by a
\* write to the alternate file name and never propagates out of to_csv,
\* also when the alternate write is denied.
C16_WriteRecovered == [][WriteRecoveredStep]_vars

\* the item the per-item loop is at yields a record
ItemYieldsRecord ==
    pc = "item" /\ items[idx].fault = "none" /\ items[idx].href # NoUrl

\* the urls of the records in the dataset
DatasetUrls == {rows[i].url : i \in 1..Len(rows)}

\* a record that is valid and new is appended with a timestamp and its url
\* remembered; any other record changes neither dataset nor seen-url set
\* and gets no timestamp
AcceptanceStep ==
    ItemYieldsRecord =>
        /\ record'.url = items[idx].href
        /\ IF items[idx].name # None /\ items[idx].name # ""
              /\ items[idx].href \notin seen_urls
           THEN /\ rows' = Append(rows, [name |-> items[idx].name,
                                         url |-> items[idx].href,
                                         price |-> items[idx].price,
                                         timestamp |-> "ts"])
                /\ seen_urls' = seen_urls \cup {items[idx].href}
                /\ record'.timestamp # None
           ELSE /\ rows' = rows
                /\ seen_urls' = seen_urls
                /\ record'.timestamp = None

\* C14: validation comes before the duplicate check and the duplicate check
\* before timestamping: a record gets a timestamp if and only if it is
\* appended, and a record rejected as invalid or as duplicate leaves the
\* dataset and the seen-url set unchanged.
C14_AcceptanceOrder ==
    /\ [][AcceptanceStep]_vars
    /\ [](\A i \in 1..Len(rows) : rows[i].timestamp # None)

\* the first item of the page had no name and was rejected without its url
\* being remembered; the second item, with the same url, was then appended
\* and stamped
C14_Witness ==
    /\ pc = "item" /\ idx = 3 /\ pg = 1
    /\ items[1].name = None /\ items[1].href = items[2].href
    /\ record.url = items[2].href /\ record.timestamp = "ts"
    /\ rows = <<record>>

\* the dataset only grows at its end
PrefixStep ==
    Len(rows') >= Len(rows) /\ SubSeq(rows', 1, Len(rows)) = rows

\* what is appended is the record of the item being processed, whose url
\* the dataset does not hold yet
AppendOrderStep ==
    rows' # rows =>
        /\ pc = "item"
        /\ Len(rows') = Len(rows) + 1
        /\ rows'[Len(rows')].url = items[idx].href
        /\ rows'[Len(rows')].name = items[idx].name
        /\ rows'[Len(rows')].price = items[idx].price
        /\ items[idx].href \notin DatasetUrls

\* an item whose url the dataset already holds leaves the copy there alone
FirstKeptStep ==
    (pc = "item" /\ items[idx].href \in DatasetUrls) => rows' = rows

\* C15: the dataset at a later state has the dataset of every earlier state
\* as a prefix - records are never removed, reordered or modified - its
\* order is the order in which the items were processed, and the copy kept
\* for a duplicated url is the first valid one encountered.
C15_AppendOnly ==
    /\ [][PrefixStep]_vars
    /\ [][AppendOrderStep]_vars
    /\ [][FirstKeptStep]_vars

\* items 5 and 6 of the page share a url; the dataset holds the copy of item
\* 5, with its price, as third record, and not the one of item 6
C15_Witness ==
    /\ pc = "cap" /\ pg = 1 /\ Len(items) = 50 /\ Len(rows) >= 3
    /\ items[5].href = items[6].href /\ items[6].price = None
    /\ rows[3].url = items[5].href /\ rows[3].price = items[5].price
    /\ rows[3].price # None

\* ------------------------------------------------------------------------
\* Parser's text functions  (parser.py:17-54)
\* A text is a sequence of characters, each a one-character string; NBSP
\* stands for U+00A0.
\* ------------------------------------------------------------------------
NBSP == "nbsp"

\* what Python's \s and str.strip() take as whitespace, among the
\* characters of the model
IsSpace(c) == c \in {" ", "\t", "\n", NBSP}

\* [0-9]
IsDigit(c) == c \in {"0", "1", "2", "3", "4", "5", "6", "7", "8", "9"}

DigitValue(c) ==
    CASE c = "0" -> 0 [] c = "1" -> 1 [] c = "2" -> 2 [] c = "3" -> 3
      [] c = "4" -> 4 [] c = "5" -> 5 [] c = "6" -> 6 [] c = "7" -> 7
      [] c = "8" -> 8 [] c = "9" -> 9

\* re.I: the letters of "out of" in either case
Lower(c) ==
    CASE c = "O" -> "o" [] c = "U" -> "u" [] c = "T" -> "t" [] c = "F" -> "f"
      [] OTHER -> c

\* a function's result: a value, or Python's None
Absent == [ok |-> FALSE]
Some(v) == [ok |-> TRUE, val |-> v]

\* the text s from position i on
From(s, i) == SubSeq(s, i, Len(s))

\* int() of a run of digits
RECURSIVE ToNat(_)
ToNat(ds) ==
    IF ds = <<>> THEN 0
    ELSE 10 * ToNat(SubSeq(ds, 1, Len(ds) - 1)) + DigitValue(ds[Len(ds)])

\* the characters of a regular expression's class: \s , [0-9]
InClass(c, cls) ==
    CASE cls = "\\s" -> IsSpace(c)
      [] cls = "[0-9]" -> IsDigit(c)

\* the position after the longest run, from position i, of characters of
\* the class
RECURSIVE RunEnd(_, _, _)
RunEnd(s, i, cls) ==
    IF i <= Len(s) /\ InClass(s[i], cls) THEN RunEnd(s, i + 1, cls) ELSE i

\* re.sub(r"\s+", " ", s): every whitespace run becomes one space
RECURSIVE Collapse(_)
Collapse(s) ==
    IF s = <<>> THEN <<>>
    ELSE IF IsSpace(Head(s))
         THEN <<" ">> \o Collapse(From(s, RunEnd(s, 1, "\\s")))
         ELSE <<Head(s)>> \o Collapse(Tail(s))

RECURSIVE LStrip(_)
LStrip(s) == IF s # <<>> /\ IsSpace(Head(s)) THEN LStrip(Tail(s)) ELSE s

RECURSIVE RStrip(_)
RStrip(s) ==
    IF s # <<>> /\ IsSpace(s[Len(s)]) THEN RStrip(SubSeq(s, 1, Len(s) - 1))
    ELSE s

\* the strip forgotten
Strip_None(s) == s

\* str.strip()
Strip(s) == RStrip(LStrip(s))

\* an optional text: Python's None, or a str
NoText == [absent |-> TRUE, s |-> <<>>]
Text(s) == [absent |-> FALSE, s |-> s]

\* parser.py:17-21  _normalize_text: "" for None and for "", else the
\* whitespace runs collapsed and the ends stripped
normalize_text(raw) ==
    IF raw.absent \/ raw.s = <<>> THEN <<>>
    ELSE Strip(Collapse(raw.s))

\* parser.py:41  the rest of the primary pattern after the number:
\* \s*out of\s*5 , matched at position k
MatchesOutOf5(s, k) ==
    LET a == RunEnd(s, k, "\\s")
        b == RunEnd(s, a + 6, "\\s")
    IN  /\ a + 5 <= Len(s)
        /\ [j \in 1..6 |-> Lower(s[a + j - 1])] = <<"o", "u", "t", " ", "o", "f">>
        /\ b <= Len(s)
        /\ s[b] = "5"

\* the number [0-9]+(?:\.[0-9])? read from position i, in tenths, with
\* (TRUE) or without (FALSE) its optional decimal
NumberAt(s, i, withDecimal) ==
    LET j == RunEnd(s, i, "[0-9]")
    IN  IF withDecimal
        THEN [tenths |-> 10 * ToNat(SubSeq(s, i, j - 1)) + DigitValue(s[j + 1]),
              next |-> j + 2]
        ELSE [tenths |-> 10 * ToNat(SubSeq(s, i, j - 1)), next |-> j]

\* whether a decimal \.[0-9] follows the digit run that starts at i
HasDecimal(s, i) ==
    LET j == RunEnd(s, i, "[0-9]")
    IN  j + 1 <= Len(s) /\ s[j] = "." /\ IsDigit(s[j + 1])

\* parser.py:41  a match of the primary pattern that starts at position i:
\* the digit run from i (a shorter run is followed by a digit and cannot
\* match), first with the decimal, then without it
PrimaryAt(s, i) ==
    IF ~IsDigit(s[i]) THEN Absent
    ELSE IF HasDecimal(s, i) /\ MatchesOutOf5(s, NumberAt(s, i, TRUE).next)
         THEN Some(NumberAt(s, i, TRUE).tenths)
    ELSE IF MatchesOutOf5(s, NumberAt(s, i, FALSE).next)
         THEN Some(NumberAt(s, i, FALSE).tenths)
    ELSE Absent

\* re.search: the match at the leftmost position that has one
RECURSIVE SearchPrimary(_, _)
SearchPrimary(s, i) ==
    IF i > Len(s) THEN Absent
    ELSE IF PrimaryAt(s, i).ok THEN PrimaryAt(s, i)
    ELSE SearchPrimary(s, i + 1)

\* parser.py:44  the fallback: the first number anywhere
RECURSIVE SearchNumber(_, _)
SearchNumber(s, i) ==
    IF i > Len(s) THEN Absent
    ELSE IF IsDigit(s[i]) THEN Some(NumberAt(s, i, HasDecimal(s, i)).tenths)
    ELSE SearchNumber(s, i + 1)

\* parser.py:37-54  _parse_rating; the result is in tenths: the number has
\* at most one decimal, so round(float(...), 1) keeps it
parse_rating(raw) ==
    IF raw.absent \/ raw.s = <<>> THEN Absent
    ELSE IF SearchPrimary(raw.s, 1).ok THEN SearchPrimary(raw.s, 1)
    ELSE SearchNumber(raw.s, 1)

\* ------------------------------------------------------------------------
\* The text functions called on the texts made of a few pieces
\* ------------------------------------------------------------------------
\* the longest rating text and the longest text to normalize, in pieces
MaxRatingPieces == 5
MaxTextPieces == 5

RECURSIVE Concat(_)
Concat(ps) == IF ps = <<>> THEN <<>> ELSE Head(ps) \o Concat(Tail(ps))

TextsOf(Pieces, k) ==
    {Concat(ps) : ps \in UNION {[1..n -> Pieces] : n \in 0..k}}

RatingPieces ==
    { <<"9">>, <<"5">>, <<".">>, <<" ">>, <<"x">>,
      <<"o", "u", "t", " ", "o", "f">>, <<"O", "u", "t", " ", "O", "F">> }

SpacePieces == { <<" ">>, <<"\t">>, <<"\n">>, <<NBSP>>, <<"a">>, <<"b">> }

InitText ==
    /\ MainIdle
    /\ ScrollIdle
    /\ SessIdle
    /\ p_pc = "call"
    /\ p_out = <<>>
    /\ \/ /\ p_fn = "_normalize_text"
          /\ p_in \in {NoText} \cup {Text(t) : t \in TextsOf(SpacePieces, MaxTextPieces)}
       \/ /\ p_fn = "_parse_rating"
          /\ p_in \in {NoText} \cup {Text(t) : t \in TextsOf(RatingPieces, MaxRatingPieces)}

CallNormalizeText ==
    /\ p_pc = "call" /\ p_fn = "_normalize_text"
    /\ p_out' = normalize_text(p_in)
    /\ p_pc' = "ret"
    /\ UNCHANGED <<p_fn, p_in, mainVars, scrollVars, sessVars>>

CallParseRating ==
    /\ p_pc = "call" /\ p_fn = "_parse_rating"
    /\ p_out' = parse_rating(p_in)
    /\ p_pc' = "ret"
    /\ UNCHANGED <<p_fn, p_in, mainVars, scrollVars, sessVars>>

NextText ==
    \/ CallNormalizeText
    \/ CallParseRating

SpecText == InitText /\ [][NextText]_vars

\* C17: for every raw rating text _parse_rating returns either nothing or a
\* value in [0.0, 5.0] with one decimal digit (the value is kept in tenths),
\* also on the fallback path and for texts such as "<n> out of 5", n > 5.
C17_RatingRange ==
    (p_pc = "ret" /\ p_fn = "_parse_rating" /\ p_out.ok)
        => (p_out.val >= 0 /\ p_out.val <= 50)

\* the text has no whitespace at either end and no two whitespace
\* characters in a row
Tidy(s) ==
    /\ s # <<>> => (~IsSpace(s[1]) /\ ~IsSpace(s[Len(s)]))
    /\ \A i \in 1..(Len(s) - 1) : ~(IsSpace(s[i]) /\ IsSpace(s[i + 1]))

\* C20: _normalize_text is idempotent, for every text and for None, and its
\* result has no leading or trailing whitespace and no run of two or more
\* whitespace characters.
C20_NormalizeIdempotent ==
    (p_pc = "ret" /\ p_fn = "_normalize_text")
        => (normalize_text(Text(p_out)) = p_out /\ Tidy(p_out))

\* a text with whitespace of several kinds at its ends and between its
\* words was normalized to the words joined by one space
C20_Witness ==
    /\ p_pc = "ret" /\ p_fn = "_normalize_text"
    /\ p_in = Text(<<"\t", "a", NBSP, "b", "\n">>)
    /\ p_out = <<"a", " ", "b">>

\* ------------------------------------------------------------------------
\* Price  (parser.py:23-35 _parse_price, parser.py:163-203 get_price)
\* ------------------------------------------------------------------------
\* Python's truth value of an optional text: neither None nor ""
HasText(t) == ~t.absent /\ t.s # <<>>

\* the characters of the classes [\d,.] , [\d,] and [0-9,.]
IsPriceChar(c) == IsDigit(c) \/ c = "," \/ c = "."
IsWholeChar(c) == IsDigit(c) \/ c = ","

\* raw.replace(a, b) for single characters
Replace(s, a, b) == [i \in 1..Len(s) |-> IF s[i] = a THEN b ELSE s[i]]

\* s.replace(",", "")
RECURSIVE StripCommas(_)
StripCommas(s) ==
    IF s = <<>> THEN <<>>
    ELSE IF Head(s) = "," THEN StripCommas(Tail(s))
    ELSE <<Head(s)>> \o StripCommas(Tail(s))

\* the first position from i on whose character is c, Len(s) + 1 if none
RECURSIVE IndexOf(_, _, _)
IndexOf(s, c, i) ==
    IF i > Len(s) \/ s[i] = c THEN i ELSE IndexOf(s, c, i + 1)

\* the digits of a fraction without the trailing zeros, which do not
\* change the number
RECURSIVE TrimZeros(_)
TrimZeros(ds) ==
    IF ds # <<>> /\ ds[Len(ds)] = "0" THEN TrimZeros(SubSeq(ds, 1, Len(ds) - 1))
    ELSE ds

\* float(num) for a text of digits and dots: a ValueError (Absent) unless
\* there is a digit and at most one dot; the number is kept as its integer
\* part and the digits of its fraction
Float(num) ==
    LET dot == IndexOf(num, ".", 1)
        int == SubSeq(num, 1, dot - 1)
        frac == From(num, dot + 1)
    IN  IF IndexOf(frac, ".", 1) <= Len(frac) THEN Absent
        ELSE IF int = <<>> /\ frac = <<>> THEN Absent
        ELSE Some([units |-> ToNat(int), fraction |-> TrimZeros(frac)])

\* re.search of a one-class pattern: the first position whose character is
\* in the class, Len(s) + 1 if none; the classes are [\d,.] and [\d,] and \d
InPriceClass(c, cls) ==
    CASE cls = "[\\d,.]" -> IsPriceChar(c)
      [] cls = "[\\d,]" -> IsWholeChar(c)
      [] cls = "\\d" -> IsDigit(c)

RECURSIVE FirstOf(_, _, _)
FirstOf(s, cls, i) ==
    IF i > Len(s) \/ InPriceClass(s[i], cls) THEN i ELSE FirstOf(s, cls, i + 1)

\* the position after the greedy run of the class that starts at i
RECURSIVE RunOf(_, _, _)
RunOf(s, cls, i) ==
    IF i <= Len(s) /\ InPriceClass(s[i], cls) THEN RunOf(s, cls, i + 1) ELSE i

\* re.search(r"cls+", s): the first run of the class, Absent if none
SearchRun(s, cls) ==
    LET i == FirstOf(s, cls, 1)
    IN  IF i > Len(s) THEN Absent
        ELSE Some(SubSeq(s, i, RunOf(s, cls, i) - 1))

\* parser.py:23-35  _parse_price
parse_price(raw) ==
    IF ~HasText(raw) THEN Absent
    ELSE LET cleaned == Replace(raw.s, NBSP, " ")
             m == SearchRun(cleaned, "[\\d,.]")
         IN  IF ~m.ok THEN Absent
             ELSE Float(StripCommas(m.val))

\* parser.py:180-182  w: the first run of digits and commas of the whole
\* part, without the commas; Absent stands for None
WholeOf(whole) ==
    IF HasText(whole) /\ SearchRun(whole.s, "[\\d,]").ok
    THEN Some(StripCommas(SearchRun(whole.s, "[\\d,]").val))
    ELSE Absent

\* parser.py:183-186  f: the first one or two digits of the fraction part
FractionOf(frac) ==
    IF HasText(frac) /\ SearchRun(frac.s, "\\d").ok
    THEN LET i == FirstOf(frac.s, "\\d", 1)
             j == RunOf(frac.s, "\\d", i)
         IN  Some(SubSeq(frac.s, i, IF j > i + 2 THEN i + 1 ELSE j - 1))
    ELSE Absent

\* Python's truth value of w and of f: neither None nor ""
Usable(x) == x.ok /\ x.val # <<>>

\* parser.py:198  re.search(r"\$([0-9,.]+)", text): group 1 of the match at
\* the first "$" that a character of the class follows
RECURSIVE SearchSigil(_, _)
SearchSigil(s, i) ==
    LET k == IndexOf(s, "$", i)
    IN  IF k >= Len(s) THEN Absent
        ELSE IF IsPriceChar(s[k + 1])
             THEN Some(SubSeq(s, k + 1, RunOf(s, "[\\d,.]", k + 1) - 1))
        ELSE SearchSigil(s, k + 1)

\* an item as get_price reads it: the text of its first span.aok-offscreen
\* (NoText: there is none), its first span.a-price with the texts of the
\* whole and fraction parts (NoText: the part is missing), its inner text
PriceItem(off, has, whole, frac, inner) ==
    [offscreen |-> off, a_price |-> has, whole |-> whole, frac |-> frac,
     inner_text |-> inner]

\* a fraction without a usable whole part ends the search
get_price_StopAtFraction(item) ==
    LET v == parse_price(Text(normalize_text(item.offscreen)))
        w == WholeOf(item.whole)
        f == FractionOf(item.frac)
        m == SearchSigil(normalize_text(Text(item.inner_text)), 1)
    IN  IF ~item.offscreen.absent /\ v.ok THEN v
        ELSE IF item.a_price /\ Usable(w) /\ Usable(f)
                /\ Float(w.val \o <<".">> \o f.val).ok
             THEN Float(w.val \o <<".">> \o f.val)
        ELSE IF item.a_price /\ Usable(w) /\ ~Usable(f) /\ Float(w.val).ok
             THEN Float(w.val)
        ELSE IF item.a_price /\ Usable(f) THEN Absent
        ELSE IF m.ok THEN parse_price(Text(m.val))
        ELSE Absent

\* parser.py:163-203  get_price
get_price(item) ==
    LET v == parse_price(Text(normalize_text(item.offscreen)))
        whole == IF item.a_price THEN item.whole ELSE NoText
        frac == IF item.a_price THEN item.frac ELSE NoText
        w == WholeOf(whole)
        f == FractionOf(frac)
        m == SearchSigil(normalize_text(Text(item.inner_text)), 1)
    IN  IF ~item.offscreen.absent /\ v.ok THEN v
        ELSE IF (HasText(whole) \/ HasText(frac)) /\ Usable(w) /\ Usable(f)
                /\ Float(w.val \o <<".">> \o f.val).ok
             THEN Float(w.val \o <<".">> \o f.val)
        ELSE IF (HasText(whole) \/ HasText(frac)) /\ Usable(w) /\ ~Usable(f)
                /\ Float(w.val).ok
             THEN Float(w.val)
        ELSE IF m.ok THEN parse_price(Text(m.val))
        ELSE Absent

\* the longest off-screen text and inner text, in pieces
MaxPricePieces == 2

OffscreenPieces == { <<"$">>, <<"1", "0">>, <<".">>, <<",">> }
InnerPieces == { <<"$">>, <<"3">>, <<".">>, <<"#", "7", " ">> }

WholeTexts ==
    { <<>>, <<"2">>, <<"2", ".">>, <<",">>, <<"x">>, <<"1", ",", "2">> }
FracTexts == { <<"9">>, <<"x">>, <<"9", "9", "9">>, <<"0", "5">> }

InitPrice ==
    /\ MainIdle
    /\ ScrollIdle
    /\ SessIdle
    /\ p_pc = "call"
    /\ p_fn = "get_price"
    /\ p_out = <<>>
    /\ \E off \in {NoText} \cup {Text(t) : t \in TextsOf(OffscreenPieces, MaxPricePieces)},
          has \in BOOLEAN,
          whole \in {NoText} \cup {Text(t) : t \in WholeTexts},
          frac \in {NoText} \cup {Text(t) : t \in FracTexts},
          inner \in TextsOf(InnerPieces, MaxPricePieces) :
            /\ has \/ (whole.absent /\ frac.absent)
            /\ p_in = PriceItem(off, has, whole, frac, inner)

CallGetPrice ==
    /\ p_pc = "call" /\ p_fn = "get_price"
    /\ p_out' = get_price(p_in)
    /\ p_pc' = "ret"
    /\ UNCHANGED <<p_fn, p_in, mainVars, scrollVars, sessVars>>

NextPrice == CallGetPrice

SpecPrice == InitPrice /\ [][NextPrice]_vars

\* the four stages, each taken alone
OffscreenStage(item) ==
    IF item.offscreen.absent THEN Absent
    ELSE parse_price(Text(normalize_text(item.offscreen)))

WholeFractionStage(item) ==
    IF item.a_price /\ Usable(WholeOf(item.whole)) /\ Usable(FractionOf(item.frac))
    THEN Float(WholeOf(item.whole).val \o <<".">> \o FractionOf(item.frac).val)
    ELSE Absent

WholeOnlyStage(item) ==
    IF item.a_price /\ Usable(WholeOf(item.whole))
    THEN Float(WholeOf(item.whole).val)
    ELSE Absent

SigilStage(item) ==
    LET m == SearchSigil(normalize_text(Text(item.inner_text)), 1)
    IN  IF m.ok THEN parse_price(Text(m.val)) ELSE Absent

Stages(item) ==
    <<OffscreenStage(item), WholeFractionStage(item), WholeOnlyStage(item),
      SigilStage(item)>>

\* C19: get_price returns the value of the earliest of the stages (a)
\* off-screen text, (b) whole+fraction, (c) whole-only, (d) currency-sigil
\* scan that produces a valid decimal; a stage that is present but yields
\* none (a fraction without a usable whole part included) does not stop the
\* later ones, and the result is absent only when all four fail.
C19_PriceOrder ==
    (p_pc = "ret" /\ p_fn = "get_price")
        => LET st == Stages(p_in)
           IN  /\ p_out.ok <=> \E k \in 1..4 : st[k].ok
               /\ \A k \in 1..4 :
                      (st[k].ok /\ \A j \in 1..(k - 1) : ~st[j].ok) => p_out = st[k]

\* the off-screen text is there but holds no number, the fraction has no
\* usable whole part, and the price comes from the sigil scan
C19_Witness ==
    /\ p_pc = "ret" /\ p_fn = "get_price"
    /\ p_in.offscreen = Text(<<".", ".">>)
    /\ p_in.a_price /\ p_in.whole = Text(<<",">>) /\ p_in.frac = Text(<<"9">>)
    /\ p_in.inner_text = <<"$", "3">>
    /\ p_out = Some([units |-> 3, fraction |-> <<>>])

\* ------------------------------------------------------------------------
\* Extraction of one item  (parser.py:56-66 _parse_reviews,
\* parser.py:68-161 extract)
\* ------------------------------------------------------------------------
\* config.py:14, parser.py:15  base_url, which has no trailing "/"
base_url ==
    <<"h", "t", "t", "p", "s", ":", "/", "/", "w", "w", "w", ".",
      "a", "m", "a", "z", "o", "n", ".", "c", "o", "m">>

\* parser.py:71-77  the URL selectors, in order
UrlStrategies == 5

\* s.startswith(prefix)
StartsWith(s, prefix) ==
    Len(s) >= Len(prefix) /\ SubSeq(s, 1, Len(prefix)) = prefix

\* parser.py:56-66  _parse_reviews
parse_reviews(raw) ==
    IF ~HasText(raw) THEN Absent
    ELSE LET m == SearchRun(raw.s, "[\\d,]")
         IN  IF ~m.ok \/ StripCommas(m.val) = <<>> THEN Absent
             ELSE Some(ToNat(StripCommas(m.val)))

\* the loops over selectors that stop at the first one whose element is
\* there and has a text (NoText: no element matches): the text they end
\* with, NoText if none has one
RECURSIVE FirstText(_)
FirstText(ts) ==
    IF ts = <<>> THEN NoText
    ELSE IF HasText(Head(ts)) THEN Head(ts)
    ELSE FirstText(Tail(ts))

\* parser.py:90-103  the name loop stops at the first selector whose
\* normalized text is not empty
RECURSIVE FirstName(_)
FirstName(ts) ==
    IF ts = <<>> THEN <<>>
    ELSE IF ~Head(ts).absent /\ normalize_text(Head(ts)) # <<>>
         THEN normalize_text(Head(ts))
    ELSE FirstName(Tail(ts))

\* an item as extract reads it: the href of the first element of each URL
\* selector, the texts of the name, original price, rating and review
\* selectors, what get_price reads, and whether it is marked Sponsored
Listing(hrefs, names, price, orig, rating, reviews, sponsored) ==
    [hrefs |-> hrefs, names |-> names, price |-> price, orig |-> orig,
     rating |-> rating, reviews |-> reviews, sponsored |-> sponsored]

ElementNotFound == [raised |-> TRUE]
Returned(rec) == [raised |-> FALSE, rec |-> rec]

\* parser.py:82-85
ResolveUrl(href) ==
    IF StartsWith(href, <<"h", "t", "t", "p">>) THEN href ELSE base_url \o href

\* parser.py:68-161  extract
extract(item) ==
    LET href == FirstText(item.hrefs)
        url == IF HasText(href) THEN ResolveUrl(href.s) ELSE <<>>
        name == FirstName(item.names)
    IN  IF url = <<>> THEN ElementNotFound
        ELSE Returned(
               [name |-> IF name = <<>> THEN NoText ELSE Text(name),
                price |-> get_price(item.price),
                original_price |-> parse_price(Text(normalize_text(FirstText(item.orig)))),
                rating |-> parse_rating(Text(normalize_text(FirstText(item.rating)))),
                reviews |-> parse_reviews(Text(normalize_text(FirstText(item.reviews)))),
                url |-> url,
                item_type |-> IF item.sponsored THEN "Sponsored" ELSE "Organic"])

\* what a URL selector's first element can have as href: no element, an
\* empty href, a path, an http(s) URL, a URL of another scheme, a relative
\* path that begins with the letters http
HrefChoices ==
    { NoText,
      Text(<<>>),
      Text(<<"/", "d", "p", "/", "1">>),
      Text(<<"h", "t", "t", "p", "s", ":", "/", "/", "h", "/", "d", "p", "/", "2">>),
      Text(<<"f", "t", "p", ":", "/", "/", "h", "/", "d", "p", "/", "3">>),
      Text(<<"h", "t", "t", "p", "x", "/", "d", "p", "/", "4">>) }

NoPrice == PriceItem(NoText, FALSE, NoText, NoText, <<"#", "7", " ">>)
APrice == PriceItem(Text(<<"$", "1", "0">>), FALSE, NoText, NoText, <<"#", "7", " ">>)

NameChoices ==
    { <<NoText, Text(<<" ">>), NoText, NoText, NoText>>,
      <<NoText, Text(<<" ">>), Text(<<"a", "\n", "b">>), NoText, NoText>> }

RatingChoices ==
    { <<NoText, NoText, NoText, NoText>>,
      <<NoText, Text(<<"4", ".", "5", " ", "o", "u", "t", " ", "o", "f", " ", "5">>),
        NoText, NoText>> }

ReviewChoices ==
    { <<NoText, NoText, NoText, NoText>>,
      <<Text(<<"1", ",", "2">>), NoText, NoText, NoText>> }

InitUrl ==
    /\ MainIdle
    /\ ScrollIdle
    /\ SessIdle
    /\ p_pc = "call"
    /\ p_fn = "extract"
    /\ p_out = <<>>
    /\ \E hrefs \in [1..UrlStrategies -> HrefChoices],
          names \in NameChoices,
          price \in {NoPrice, APrice},
          rating \in RatingChoices,
          reviews \in ReviewChoices,
          sponsored \in BOOLEAN :
            p_in = Listing(hrefs, names, price, <<NoText, NoText>>, rating, reviews, sponsored)

CallExtract ==
    /\ p_pc = "call" /\ p_fn = "extract"
    /\ p_out' = extract(p_in)
    /\ p_pc' = "ret"
    /\ UNCHANGED <<p_fn, p_in, mainVars, scrollVars, sessVars>>

NextUrl == CallExtract

SpecUrl == InitUrl /\ [][NextUrl]_vars

\* an absolute href: a scheme and a colon before any slash
IsAbsolute(href) ==
    LET colon == IndexOf(href, ":", 1)
    IN  colon > 1 /\ colon <= Len(href) /\ colon < IndexOf(href, "/", 1)

\* the URL strategies of the item that yield a non-empty href
Yielding(item) == {k \in 1..UrlStrategies : HasText(item.hrefs[k])}

\* the first of them
FirstYielding(item) ==
    CHOOSE k \in Yielding(item) : \A j \in Yielding(item) : k <= j

\* extract raises ElementNotFound if and only if no strategy yields a
\* non-empty href
RaisesIffNoHref ==
    (p_pc = "ret" /\ p_fn = "extract")
        => (p_out.raised <=> Yielding(p_in) = {})

\* the url comes from the first yielding strategy: passed through when
\* absolute, prefixed with the base URL when relative
UrlOfFirstStrategy ==
    (p_pc = "ret" /\ p_fn = "extract" /\ ~p_out.raised)
        => LET href == p_in.hrefs[FirstYielding(p_in)].s
           IN  /\ p_out.rec.url # <<>>
               /\ p_out.rec.url = IF IsAbsolute(href) THEN href ELSE base_url \o href

\* a missing name, price, rating or review count is an absent field
MissingIsAbsent ==
    (p_pc = "ret" /\ p_fn = "extract" /\ ~p_out.raised)
        => /\ (\A k \in DOMAIN p_in.names : ~HasText(p_in.names[k])) => p_out.rec.name.absent
           /\ p_in.price = NoPrice => ~p_out.rec.price.ok
           /\ (\A k \in DOMAIN p_in.rating : ~HasText(p_in.rating[k])) => ~p_out.rec.rating.ok
           /\ (\A k \in DOMAIN p_in.reviews : ~HasText(p_in.reviews[k])) => ~p_out.rec.reviews.ok

\* C18: extract raises ElementNotFound if and only if none of the ordered
\* URL strategies yields a non-empty href; otherwise the record's url is
\* non-empty and comes from the first strategy with a non-empty href,
\* passed through when absolute and prefixed with the base URL when
\* relative, and a missing name, price, rating or review count is an
\* absent field, never ElementNotFound.
C18_UrlMandatory == RaisesIffNoHref /\ UrlOfFirstStrategy /\ MissingIsAbsent

\* ------------------------------------------------------------------------
\* The browser session  (browser_manager.py:21-45 __aenter__ / __aexit__,
\* main.py:46-137 the body of the async with)
\* A resource is None (never acquired), "open" (acquired, not released),
\* "closed" (its release returned) or "broken" (its release raised).
\* ------------------------------------------------------------------------
\* the driver calls of one run, any of which may raise
Calls ==
    { "start", "launch", "new_context", "new_page", "set_delivery_location",
      "scrape", "context.close", "browser.close", "stop" }

InitSession ==
    /\ MainIdle
    /\ ScrollIdle
    /\ ParseIdle
    /\ b_pc = "start"
    /\ faults \in SUBSET Calls
    /\ playwright = None
    /\ browser = None
    /\ context = None
    /\ exc = FALSE

\* an exception leaves __aenter__: the with statement does not call
\* __aexit__, and scrape() ends with the exception
EnterRaises(call) ==
    /\ call \in faults
    /\ exc' = TRUE
    /\ b_pc' = "ended"

\* browser_manager.py:22  async_playwright().start()
Start ==
    /\ b_pc = "start" /\ "start" \notin faults
    /\ playwright' = "open"
    /\ b_pc' = "launch"
    /\ UNCHANGED <<faults, browser, context, exc, mainVars, scrollVars, parseVars>>

StartError ==
    /\ b_pc = "start" /\ EnterRaises("start")
    /\ UNCHANGED <<faults, playwright, browser, context, mainVars, scrollVars, parseVars>>

\* browser_manager.py:23  chromium.launch
Launch ==
    /\ b_pc = "launch" /\ "launch" \notin faults
    /\ browser' = "open"
    /\ b_pc' = "new_context"
    /\ UNCHANGED <<faults, playwright, context, exc, mainVars, scrollVars, parseVars>>

LaunchError ==
    /\ b_pc = "launch" /\ EnterRaises("launch")
    /\ UNCHANGED <<faults, playwright, browser, context, mainVars, scrollVars, parseVars>>

\* browser_manager.py:30-37  browser.new_context; return self
NewContext ==
    /\ b_pc = "new_context" /\ "new_context" \notin faults
    /\ context' = "open"
    /\ b_pc' = "new_page"
    /\ UNCHANGED <<faults, playwright, browser, exc, mainVars, scrollVars, parseVars>>

NewContextError ==
    /\ b_pc = "new_context" /\ EnterRaises("new_context")
    /\ UNCHANGED <<faults, playwright, browser, context, mainVars, scrollVars, parseVars>>

\* main.py:47  bm.new_page()
NewPage ==
    /\ b_pc = "new_page" /\ "new_page" \notin faults
    /\ b_pc' = "set_delivery_location"
    /\ UNCHANGED <<faults, playwright, browser, context, exc, mainVars, scrollVars, parseVars>>

\* an exception raised in the body: the with statement calls __aexit__
NewPageError ==
    /\ b_pc = "new_page" /\ "new_page" \in faults
    /\ exc' = TRUE
    /\ b_pc' = "exit_context"
    /\ UNCHANGED <<faults, playwright, browser, context, mainVars, scrollVars, parseVars>>

\* main.py:50-53  set_delivery_location; any Exception is caught
SetDeliveryLocation ==
    /\ b_pc = "set_delivery_location"
    /\ b_pc' = "scrape"
    /\ UNCHANGED <<faults, playwright, browser, context, exc, mainVars, scrollVars, parseVars>>

\* main.py:56-137  the page loop, the export and the sample print return
ScrapeBody ==
    /\ b_pc = "scrape" /\ "scrape" \notin faults
    /\ b_pc' = "exit_context"
    /\ UNCHANGED <<faults, playwright, browser, context, exc, mainVars, scrollVars, parseVars>>

\* main.py:95, 98, 123, 129  an uncaught error in the page loop or the export
ScrapeBodyError ==
    /\ b_pc = "scrape" /\ "scrape" \in faults
    /\ exc' = TRUE
    /\ b_pc' = "exit_context"
    /\ UNCHANGED <<faults, playwright, browser, context, mainVars, scrollVars, parseVars>>

\* an exception leaves __aexit__: the rest of __aexit__ is not run
ExitRaises(call) ==
    /\ call \in faults
    /\ exc' = TRUE
    /\ b_pc' = "ended"

\* browser_manager.py:40-41  if self.context: await self.context.close()
ExitContext ==
    /\ b_pc = "exit_context"
    /\ context = None \/ "context.close" \notin faults
    /\ context' = IF context = None THEN None ELSE "closed"
    /\ b_pc' = "exit_browser"
    /\ UNCHANGED <<faults, playwright, browser, exc, mainVars, scrollVars, parseVars>>

ExitContextError ==
    /\ b_pc = "exit_context"
    /\ context # None /\ ExitRaises("context.close")
    /\ context' = "broken"
    /\ UNCHANGED <<faults, playwright, browser, mainVars, scrollVars, parseVars>>

\* browser_manager.py:42-43  if self.browser: await self.browser.close()
ExitBrowser ==
    /\ b_pc = "exit_browser"
    /\ browser = None \/ "browser.close" \notin faults
    /\ browser' = IF browser = None THEN None ELSE "closed"
    /\ b_pc' = "exit_stop"
    /\ UNCHANGED <<faults, playwright, context, exc, mainVars, scrollVars, parseVars>>

ExitBrowserError ==
    /\ b_pc = "exit_browser"
    /\ browser # None /\ ExitRaises("browser.close")
    /\ browser' = "broken"
    /\ UNCHANGED <<faults, playwright, context, mainVars, scrollVars, parseVars>>

\* browser_manager.py:44-45  if self._playwright: await self._playwright.stop()
ExitStop ==
    /\ b_pc = "exit_stop"
    /\ playwright = None \/ "stop" \notin faults
    /\ playwright' = IF playwright = None THEN None ELSE "closed"
    /\ b_pc' = "ended"
    /\ UNCHANGED <<faults, browser, context, exc, mainVars, scrollVars, parseVars>>

ExitStopError ==
    /\ b_pc = "exit_stop"
    /\ playwright # None /\ ExitRaises("stop")
    /\ playwright' = "broken"
    /\ UNCHANGED <<faults, browser, context, mainVars, scrollVars, parseVars>>

NextSession ==
    \/ Start
    \/ StartError
    \/ Launch
    \/ LaunchError
    \/ NewContext
    \/ NewContextError
    \/ NewPage
    \/ NewPageError
    \/ SetDeliveryLocation
    \/ ScrapeBody
    \/ ScrapeBodyError
    \/ ExitContext
    \/ ExitContextError
    \/ ExitBrowser
    \/ ExitBrowserError
    \/ ExitStop
    \/ ExitStopError

SpecSession == InitSession /\ [][NextSession]_vars

\* C21: once acquisition has started, on every way the run can end (normal
\* completion, an error in the scraping body, an error while closing the
\* context, a failure part-way through acquisition) every resource that was
\* acquired - context, browser, driver - has been released: none is left
\* open when the run has ended.
C21_SessionReleased ==
    b_pc = "ended"
        => (context # "open" /\ browser # "open" /\ playwright # "open")

\* C22: at every point where a duplicate check is made - the per-item loop
\* is about to handle an item - the seen-url set, rebuilt from the dataset
\* at the start of the page's item loop, is exactly the set of the urls of
\* the records now in the dataset, so the check decides as one running set
\* kept across all pages would.
C22_SeenIsDatasetUrls ==
    pc = "item" => seen_urls = DatasetUrls

\* on the second page, after records of the first page and of this page
\* were appended, the next item is about to be checked
C22_Witness ==
    /\ pc = "item" /\ pg = 2 /\ idx > 1
    /\ \E i, j \in 1..Len(rows) : rows[i].url < 2000 /\ rows[j].url > 2000
    /\ seen_urls = DatasetUrls

\* ------------------------------------------------------------------------
\* Runs to their end: scrape()'s page loop and export, with the call of
\* scroll_to_bottom as one step, and scroll_to_bottom on its own; every
\* driver call returns or raises, so a step that can be taken is taken.
\* ------------------------------------------------------------------------
InitRun == Init \/ InitScroll

\* main.py:56-129  a step of scrape()
ScrapeStep == spc = "idle" /\ Next

NextRun ==
    \/ ScrapeStep
    \/ NextScroll

SpecRun == InitRun /\ [][NextRun]_vars /\ WF_vars(NextRun)

\* scrape() is running (and not scroll_to_bottom on its own)
Scraping == spc = "idle"

\* the positions inside the page loop's body
PageBody ==
    {"goto", "nav_done", "scroll", "idle", "query", "nudge", "check_items",
     "item", "cap"}

\* the run is over: the export returned or an error left scrape(); the
\* bottom detection returned
RunEnded == pc \in {"done", "crashed"} \/ spc = "done"

\* the loop variables stay within their ranges
LoopBounds ==
    /\ (Scraping /\ pc \in PageBody) => (pg >= 1 /\ pg <= max_pages)
    /\ (Scraping /\ pc = "goto") => (attempt >= 1 /\ attempt <= max_retries)
    /\ scroll_attempt >= 0 /\ scroll_attempt < SCROLL_ATTEMPTS
    /\ spc \in {"wheel", "read"} => (step >= 1 /\ step <= SCROLL_STEPS)
    /\ (Scraping /\ pc = "item") =>
           (idx >= 1 /\ idx <= Len(items) /\ idx <= target_page_count)

\* every pass through a loop counts: a page is entered with the next page
\* number, a navigation is retried with the next attempt number, and so on
\* for the convergence iterations, the scroll steps and the items
LoopStep ==
    /\ pg' >= pg
    /\ (pc # "for_pg" /\ pc' = "for_pg") => pg' = pg + 1
    /\ (pc = "goto" /\ pc' = "goto") => attempt' = attempt + 1
    /\ (pc = "nudge" /\ pc' = "scroll") => scroll_attempt' = scroll_attempt + 1
    /\ (pc \in ScrollPhase /\ pc' \in ScrollPhase) => pg' = pg
    /\ (spc = "read" /\ spc' = "wheel") => step' = step + 1
    /\ (pc = "item" /\ pc' = "item") => (idx' = idx + 1 /\ pg' = pg)

\* the page loop's ends lead to the export, the export is called once and
\* nothing comes after it, and the dataset grows only in the item loop
ExportStep ==
    /\ ~(Scraping /\ pc \in {"done", "crashed"})
    /\ (pc = "for_pg" /\ pg > max_pages) => pc' = "export"
    /\ pc = "export" => (pc' \in {"done", "crashed"} /\ rows' = rows)
    /\ written' # written => (pc = "export" /\ written = "none" /\ pc' = "done")
    /\ rows' # rows => pc = "item"
    /\ pc' = "done" => pc = "export"

\* how far the page body is from its end, at most: the cap check, the
\* items left, the check of the items, the convergence iterations left,
\* the navigation attempts left
AtItem == 2 + (Len(items) - idx)
AtCheckItems == 3 + PAGE_TARGET + Extra
AtScrollPhase ==
    AtCheckItems + 4 * (SCROLL_ATTEMPTS - 1 - scroll_attempt)
        + (CASE pc = "scroll" -> 4 [] pc = "idle" -> 3 [] pc = "query" -> 2
             [] pc = "nudge" -> 1)
AtNavDone == AtCheckItems + 4 * SCROLL_ATTEMPTS + 1
AtGoto == AtNavDone + 1 + (max_retries - attempt)
AtForPage == AtNavDone + 1 + max_retries

\* an upper bound of the number of steps left in the run, for scrape() by
\* pages and position in the page, for scroll_to_bottom by steps
StepsLeft ==
    IF Scraping
    THEN CASE pc \in {"done", "crashed"} -> 0
           [] pc = "export" -> 1
           [] pc = "for_pg" -> (max_pages + 1 - pg) * (AtForPage + 1) + AtForPage
           [] pc = "goto" -> (max_pages + 1 - pg) * (AtForPage + 1) + AtGoto
           [] pc = "nav_done" -> (max_pages + 1 - pg) * (AtForPage + 1) + AtNavDone
           [] pc \in ScrollPhase -> (max_pages + 1 - pg) * (AtForPage + 1) + AtScrollPhase
           [] pc = "check_items" -> (max_pages + 1 - pg) * (AtForPage + 1) + AtCheckItems
           [] pc = "item" -> (max_pages + 1 - pg) * (AtForPage + 1) + AtItem
           [] pc = "cap" -> (max_pages + 1 - pg) * (AtForPage + 1) + 1
    ELSE IF spc = "done" THEN 0
    ELSE 2 * (SCROLL_STEPS - step) + (IF spc = "wheel" THEN 2 ELSE 1)

\* every step brings the run nearer to its end
TowardsEndStep == StepsLeft' < StepsLeft

\* a run that is not over can take a step
CanStep == ~RunEnded => ENABLED NextRun

\* C23: every run terminates - at most max_pages pages, at most max_retries
\* navigation attempts per page, at most 6 convergence iterations per page,
\* at most 120 scroll steps per bottom detection, at most target-many items
\* per page - and every run whose page loop ends without an uncaught error
\* calls the export exactly once, after the last dataset append.
C23_Termination ==
    /\ []LoopBounds
    /\ [](StepsLeft >= 0)
    /\ [](StepsLeft = 0 <=> RunEnded)
    /\ []CanStep
    /\ [][TowardsEndStep]_vars
    /\ [][LoopStep]_vars
    /\ [][ExportStep]_vars
    /\ [](pc = "done" => written # "none")

\* three pages were scraped, the pages are exhausted and the export wrote
\* the dataset
C23_Witness ==
    /\ pc = "done" /\ written = "primary" /\ max_pages = 3 /\ pg = 4
    /\ Len(rows) > PAGE_TARGET

=============================================================================
